---- MODULE Spec2Model ----
(***************************************************************************)
(* Training-batch kernels of TurboNeRF (training-batch-kernels.cuh) and    *)
(* the rendering controller (NeRFRenderingController).                     *)
(*                                                                         *)
(* Numbers.  The kernels compute in binary32, and so does the model:      *)
(* every float is a pair <<m, e>> with a significand of 24 bits, and every *)
(* operation rounds to nearest even, each on its own (no fused             *)
(* multiply-add).  The scene is laid out in ticks, one tick being the      *)
(* sampler's 1e-5f: a length of n ticks is the float n * 1e-5f.  The scene *)
(* is one-dimensional: every ray lies on the x axis, so of each xyz buffer *)
(* only channel 0 (index i, resp. sample_offset + k) carries information;  *)
(* channels 1 and 2 (at + batch_size, + 2 * batch_size) are not modelled.  *)
(***************************************************************************)
EXTENDS Integers, Sequences, FiniteSets, TLC

\* ------------------------------------------------------------------ bounds
\* rays in the batch (n_rays)
NRays == 3
\* the random floats are the multiples of 1 / RandDen in [0, 1)
RandDen == 2
\* cells per grid level along the axis
GridRes == 3

\* ---------------------------------------------------------------- constants
\* float: the significand of binary32 has 24 bits
SigBits == 24

\* ------------------------------------------------------- launch parameters
\* the training images: their number and their dimensions in pixels
Dataset == [n_images |-> 2, width |-> 3, height |-> 2]

\* ------------------------------------------------------------------ helpers
Max(a, b) == IF a > b THEN a ELSE b

Rays == 0 .. (NRays - 1)
NImages == Dataset.n_images
Images == 0 .. (NImages - 1)
NPixelsPerImage == Dataset.width * Dataset.height
RandVals == 0 .. (RandDen - 1)
Unwritten == -1

\* ---------------------------------------------------------------- binary32
\* A float is <<m, e>>, the value m * 2^e, with m = 0 (and e = 0) or
\* 2^23 <= |m| < 2^24.  The values of the kernels are far from the subnormal
\* and the overflow range, which are not modelled, and none is a NaN.
FZero == <<0, 0>>
FOne == <<2 ^ (SigBits - 1), 1 - SigBits>>
FHalf == <<2 ^ (SigBits - 1), -SigBits>>
FNeg(a) == <<-a[1], a[2]>>

\* round to nearest even of n * 2^e (its magnitude a fraction of 2^e larger
\* when sticky) to 24 significant bits; |n| < 2^31, and a sticky n has at
\* least 26 bits
FRound(n, e, sticky) ==
    LET a == IF n < 0 THEN -n ELSE n
        sg == IF n < 0 THEN -1 ELSE 1
    IN  IF a = 0 THEN FZero
        ELSE IF a < 2 ^ (SigBits - 1)
        THEN LET k == CHOOSE j \in 1 .. (SigBits - 1) :
                          a * (2 ^ j) >= 2 ^ (SigBits - 1)
                          /\ a * (2 ^ (j - 1)) < 2 ^ (SigBits - 1)
             IN  <<sg * a * (2 ^ k), e - k>>
        ELSE IF a < 2 ^ SigBits THEN <<n, e>>
        ELSE LET k == CHOOSE j \in 1 .. 7 :
                          a \div (2 ^ j) < 2 ^ SigBits
                          /\ a \div (2 ^ (j - 1)) >= 2 ^ SigBits
                 q == a \div (2 ^ k)
                 rem == a % (2 ^ k)
                 half == 2 ^ (k - 1)
                 up == rem > half \/ (rem = half /\ (sticky \/ q % 2 = 1))
                 m == IF up THEN q + 1 ELSE q
             IN  IF m = 2 ^ SigBits
                 THEN <<sg * (2 ^ (SigBits - 1)), e + k + 1>>
                 ELSE <<sg * m, e + k>>

\* (float)n of an integer |n| < 2^31
FromInt(n) == FRound(n, 0, FALSE)
FromUInt(n) == FromInt(n)

\* static_cast<uint32_t>(a) for a >= 0: truncation
ToUInt(a) ==
    IF a[2] >= 0 THEN a[1] * (2 ^ a[2])
    ELSE IF -a[2] > SigBits THEN 0 ELSE a[1] \div (2 ^ (-a[2]))

\* float operator<
FLess(a, b) ==
    IF a[1] = 0 THEN b[1] > 0
    ELSE IF b[1] = 0 THEN a[1] < 0
    ELSE IF (a[1] < 0) # (b[1] < 0) THEN a[1] < 0
    ELSE IF a[1] > 0 THEN a[2] < b[2] \/ (a[2] = b[2] /\ a[1] < b[1])
    ELSE a[2] > b[2] \/ (a[2] = b[2] /\ a[1] < b[1])
\* float operator<=
FLeq(a, b) == ~FLess(b, a)
FMin(a, b) == IF FLess(b, a) THEN b ELSE a
FMax(a, b) == IF FLess(a, b) THEN b ELSE a
\* tcnn::clamp
FClamp(v, lo, hi) == FMax(lo, FMin(v, hi))

\* the smaller operand's significand on the larger one's scale, three guard
\* bits kept: <<bits, whether bits were lost>>
FAlign(m, d) ==
    IF d <= 3 THEN <<m * (2 ^ (3 - d)), FALSE>>
    ELSE IF d - 3 > SigBits THEN <<0, TRUE>>
    ELSE <<m \div (2 ^ (d - 3)), (m % (2 ^ (d - 3))) # 0>>

\* float operator+
FAdd(a, b) ==
    IF a[1] = 0 THEN b
    ELSE IF b[1] = 0 THEN a
    ELSE LET hi == IF a[2] >= b[2] THEN a ELSE b
             lo == IF a[2] >= b[2] THEN b ELSE a
             al == FAlign(IF lo[1] < 0 THEN -lo[1] ELSE lo[1], hi[2] - lo[2])
             hm == 8 * (IF hi[1] < 0 THEN -hi[1] ELSE hi[1])
             s == IF (hi[1] < 0) = (lo[1] < 0) THEN hm + al[1]
                  ELSE hm - al[1] - (IF al[2] THEN 1 ELSE 0)
         IN  FRound(IF hi[1] < 0 THEN -s ELSE s, hi[2] - 3, al[2])

\* float operator-
FSub(a, b) == FAdd(a, FNeg(b))

\* float operator*: the 48-bit product from 12-bit halves
FMul(a, b) ==
    IF a[1] = 0 \/ b[1] = 0 THEN FZero
    ELSE LET am == IF a[1] < 0 THEN -a[1] ELSE a[1]
             bm == IF b[1] < 0 THEN -b[1] ELSE b[1]
             ah == am \div 4096
             al == am % 4096
             bh == bm \div 4096
             bl == bm % 4096
             lo == al * bl
             mid == ah * bl + al * bh + (lo \div 4096)
             top == ah * bh + (mid \div 4096)
             low == (mid % 4096) * 4096 + (lo % 4096)
             p == top * 16 + (low \div (2 ^ 20))
         IN  FRound(IF (a[1] < 0) = (b[1] < 0) THEN p ELSE -p,
                    a[2] + b[2] + 20, (low % (2 ^ 20)) # 0)

\* the 48-bit product am * bm of two significands as <<high, low>> halves of
\* 24 bits each
FMulBits(am, bm) ==
    LET ah == am \div 4096
        al == am % 4096
        bh == bm \div 4096
        bl == bm % 4096
        lo == al * bl
        mid == ah * bl + al * bh + (lo \div 4096)
    IN  <<ah * bh + (mid \div 4096), (mid % 4096) * 4096 + (lo % 4096)>>

\* round to nearest even of sg * (h * 2^24 + l) * 2^e (its magnitude a
\* fraction of 2^e larger when sticky); 0 <= l < 2^24, 0 <= h < 2^30
FRoundWide(sg, h, l, e, sticky) ==
    IF h = 0 THEN FRound(sg * l, e, sticky)
    ELSE IF h >= 2 ^ SigBits
    THEN FRound(sg * h, e + SigBits, sticky \/ l # 0)
    ELSE LET k == CHOOSE j \in 3 .. SigBits :
                      h < 2 ^ (SigBits + 3 - j)
                      /\ (j = SigBits \/ h >= 2 ^ (SigBits + 2 - j))
         IN  FRound(sg * (h * (2 ^ k) + (l \div (2 ^ (SigBits - k)))),
                    e + SigBits - k,
                    sticky \/ (l % (2 ^ (SigBits - k))) # 0)

\* fmaf(a, b, c): a * b + c rounded once
FFma(a, b, c) ==
    IF a[1] = 0 \/ b[1] = 0 THEN c
    ELSE LET p == FMulBits(IF a[1] < 0 THEN -a[1] ELSE a[1],
                           IF b[1] < 0 THEN -b[1] ELSE b[1])
             sp == IF (a[1] < 0) = (b[1] < 0) THEN 1 ELSE -1
             ep == a[2] + b[2]
             cm == IF c[1] < 0 THEN -c[1] ELSE c[1]
             d == c[2] - ep
         IN  IF c[1] = 0 THEN FRoundWide(sp, p[1], p[2], ep, FALSE)
             ELSE IF d > SigBits + 5
             THEN \* c far above the product: the product on c's scale, three
                  \* guard bits kept, as in operator+
                  LET al == IF d - 3 >= 2 * SigBits THEN <<0, TRUE>>
                            ELSE <<p[1] \div (2 ^ (d - 3 - SigBits)),
                                   (p[1] % (2 ^ (d - 3 - SigBits))) # 0
                                       \/ p[2] # 0>>
                      s == IF (c[1] < 0) = (sp < 0) THEN 8 * cm + al[1]
                           ELSE 8 * cm - al[1] - (IF al[2] THEN 1 ELSE 0)
                  IN  FRound(IF c[1] < 0 THEN -s ELSE s, c[2] - 3, al[2])
             ELSE LET \* c on the product's scale: high and low half, and
                      \* whether bits of c lie below the product's last bit
                      ch == IF d >= SigBits THEN cm * (2 ^ (d - SigBits))
                            ELSE IF d >= 0 THEN cm \div (2 ^ (SigBits - d))
                            ELSE 0
                      cl == IF d >= SigBits THEN 0
                            ELSE IF d >= 0
                            THEN (cm % (2 ^ (SigBits - d))) * (2 ^ d)
                            ELSE IF d <= -SigBits THEN 0
                            ELSE cm \div (2 ^ (-d))
                      st == d < 0 /\ (d <= -SigBits \/ cm % (2 ^ (-d)) # 0)
                      same == (c[1] < 0) = (sp < 0)
                      sh == IF same THEN p[1] + ch ELSE p[1] - ch
                      sl == IF same THEN p[2] + cl
                            ELSE p[2] - cl - (IF st THEN 1 ELSE 0)
                      h == sh + (sl \div (2 ^ SigBits))
                      l == sl % (2 ^ SigBits)
                  IN  IF h < 0
                      THEN IF l = 0 THEN FRoundWide(-sp, -h, 0, ep, FALSE)
                           ELSE FRoundWide(-sp, -h - 1, (2 ^ SigBits) - l,
                                           ep, FALSE)
                      ELSE FRoundWide(sp, h, l, ep, st)

\* SigBits + 2 quotient bits of n / m by long division, six bits a step:
\* <<quotient, whether a remainder is left>>
FDivBits(n, m) ==
    LET r0 == n % m
        r1 == (r0 * 64) % m
        r2 == (r1 * 64) % m
        r3 == (r2 * 64) % m
        r4 == (r3 * 64) % m
        q4 == ((((n \div m) * 64 + ((r0 * 64) \div m)) * 64
                  + ((r1 * 64) \div m)) * 64
                  + ((r2 * 64) \div m)) * 64 + ((r3 * 64) \div m)
    IN  <<q4 * 4 + ((r4 * 4) \div m), (r4 * 4) % m # 0>>

\* float operator/ for b # 0
FDiv(a, b) ==
    IF a[1] = 0 THEN FZero
    ELSE LET qb == FDivBits(IF a[1] < 0 THEN -a[1] ELSE a[1],
                            IF b[1] < 0 THEN -b[1] ELSE b[1])
         IN  FRound(IF (a[1] < 0) = (b[1] < 0) THEN qb[1] ELSE -qb[1],
                    a[2] - b[2] - (SigBits + 2), qb[2])

\* (m * 2^d) mod n
RECURSIVE ModShift(_, _, _)
ModShift(m, n, d) ==
    IF d >= 6 THEN ModShift((m % n) * 64, n, d - 6)
    ELSE ((m % n) * (2 ^ d)) % n

\* fmodf(x, y) for x >= 0, y > 0: x - y * trunc(x / y), which is exact
fmodf(x, y) ==
    IF FLess(x, y) THEN x
    ELSE FRound(ModShift(x[1], y[1], x[2] - y[2]), y[2], FALSE)

\* a * b + c written as one expression: nvcc contracts the product and the
\* sum it feeds into one fused multiply-add, rounded once (--fmad=true, the
\* compiler's default)
MulAdd(a, b, c) == FFma(a, b, c)

\* 1e-5f
Eps == <<10995116, -40>>
\* what the host passes to the sampler
NRaysPerImage == FDiv(FromUInt(NRays), FromUInt(NImages))
RandomPixelChunkSize == FDiv(FromUInt(NPixelsPerImage), NRaysPerImage)
\* random[i] and random_float[q]: the floats r / RandDen
RandomFloats == [r \in RandVals |-> FDiv(FromUInt(r), FromUInt(RandDen))]
RandomFloat(r) == RandomFloats[r]

VARIABLES
    pc,             \* the pass that is running
    done,           \* threads of the running pass that have finished
    grid,           \* occupancy grid: level -> set of occupied cells
    cameras,        \* per-image camera
    pix_rgba, ori_xyz, dir_xyz, idir_xyz, ray_t, ray_t_max, ray_alive,
    n_steps, ray_offset,
    sampler_alive,  \* history: ray_alive as the sampler left it
    cnt_info,       \* history: per ray, the march of the counting pass
    gen_last,       \* history: the march and the samples of the generating
                    \* pass's thread that finished last
    rlog,           \* history: reads of the marching passes,
                    \*          <<kernel, thread, buffer, index>>
    wlog,           \* history: writes of the marching passes, likewise
    out_count       \* history: writes per channel-0 index of the out buffers

trainVars == <<pc, done, grid, cameras, pix_rgba, ori_xyz, dir_xyz, idir_xyz,
               ray_t, ray_t_max, ray_alive, n_steps, ray_offset,
               sampler_alive, cnt_info, gen_last, rlog, wlog, out_count>>

\* ---------------------------------------------------------- occupancy grid
Levels == {0, 1}
\* cell sizes and extents in ticks
CellSize(l) == 2 ^ (l + 1)
\* level 1 spans the bounding box, level 0 its inner half
LevelHalf(l) == (GridRes * CellSize(l)) \div 2
HalfSize == LevelHalf(1)
LevelCells == 0 .. (GridRes - 1)
\* the lengths of the scene: n ticks are the float n * 1e-5f
TickFloats ==
    [n \in (-(HalfSize + 6)) .. (2 * HalfSize + 6) |-> FMul(FromInt(n), Eps)]
Ticks(n) == TickFloats[n]
\* cone_angle, dt_min and dt_max of both marching passes
March == [cone_angle |-> FHalf, dt_min |-> Ticks(2), dt_max |-> Ticks(4)]
\* the lower boundary of cell c of level l
CellLo(l, c) == Ticks(c * CellSize(l) - LevelHalf(l))
\* the cell of level l that holds x, positions outside the level clamped
CellOf(l, x) ==
    LET below == { c \in LevelCells : FLeq(CellLo(l, c), x) }
    IN  IF below = {} THEN 0 ELSE CHOOSE c \in below : \A b \in below : b <= c
BatchSize == NRays * (2 * HalfSize + 1)
\* 1 / (size of the bounding box)
inv_aabb_size == FDiv(FOne, Ticks(2 * HalfSize))

\* OccupancyGrid::get_dt
get_dt(t, cone_angle, dt_min, dt_max) ==
    FClamp(FMul(t, cone_angle), dt_min, dt_max)

\* OccupancyGrid::get_grid_level_at
get_grid_level_at(x, dt) ==
    LET by_pos == IF FLeq(Ticks(-LevelHalf(0)), x)
                     /\ FLess(x, Ticks(LevelHalf(0)))
                  THEN 0 ELSE 1
        by_dt == IF FLeq(dt, Ticks(CellSize(0))) THEN 0 ELSE 1
    IN  Max(by_pos, by_dt)

\* OccupancyGrid::is_occupied_at
is_occupied_at(level, x) == CellOf(level, x) \in grid[level]

\* OccupancyGrid::get_dt_to_next_voxel
get_dt_to_next_voxel(x, d, id, dt_min, level) ==
    LET boundary == IF FLess(FZero, d) THEN CellLo(level, CellOf(level, x) + 1)
                    ELSE CellLo(level, CellOf(level, x))
    IN  FMax(dt_min, FMul(FSub(boundary, x), id))

\* grids the trainer can hold: a coarse cell is occupied whenever a fine cell
\* that starts inside it is (the coarse levels are max-pooled from the fine)
Grids ==
    { g \in [Levels -> SUBSET LevelCells] :
        \A c \in g[0] : CellOf(1, CellLo(0, c)) \in g[1] }

\* ------------------------------------------------------------ bounding box
\* BoundingBox::contains
contains(x) == FLeq(Ticks(-HalfSize), x) /\ FLeq(x, Ticks(HalfSize))

\* BoundingBox::get_ray_t_intersection (slab test): <<hit, t>>
get_ray_t_intersection(o, d, id) ==
    LET t1 == FMul(FSub(Ticks(-HalfSize), o), id)
        t2 == FMul(FSub(Ticks(HalfSize), o), id)
    IN  <<FLeq(FZero, FMax(t1, t2)), FMin(t1, t2)>>

\* ------------------------------------------------------------------ camera
CameraList ==
    << [o |-> -(HalfSize + 2), d |-> 1, near |-> 0, far |-> HalfSize + 6],
       [o |-> HalfSize + 2, d |-> 1, near |-> 0, far |-> HalfSize],
       [o |-> -(HalfSize + 2), d |-> 1, near |-> 1, far |-> 2],
       [o |-> -(HalfSize + 2), d |-> 1, near |-> 1, far |-> 4],
       [o |-> 3 - HalfSize, d |-> -1, near |-> 0, far |-> 2 * HalfSize],
       [o |-> -(HalfSize + 2), d |-> 1, near |-> 1, far |-> 3] >>

\* the datasets: the images' cameras are consecutive cameras of the list
CameraSets ==
    { [m \in Images |-> CameraList[((c + m) % Len(CameraList)) + 1]] :
        c \in 0 .. (Len(CameraList) - 1) }

\* Camera::global_ray_at_pixel_xy: every pixel's ray lies on the axis
global_ray_at_pixel_xy(cam, x, y) == [o |-> Ticks(cam.o), d |-> FromInt(cam.d)]

\* image_data: every pixel of image m carries the tag m
image_data(q) == IF q < NImages * NPixelsPerImage
                 THEN q \div NPixelsPerImage ELSE NImages

\* ----------------------------------------------------------------- sampler
\* The value of chunk_start + random * (chunk_end - chunk_start) under the
\* contractions a compiler may choose for lines 70-76.  The product
\* local_chunk_index * chunk_size feeds three sums (lines 73 and 76) and line
\* 76 adds two products, so which product is fused into which sum is the
\* compiler's choice: each sum is taken fused and unfused.
ChunkSums(local_chunk_index, chunk_size, chunk_start, random) ==
    LET ends == {FAdd(chunk_start, chunk_size),
                 FFma(local_chunk_index, chunk_size, chunk_size)}
        diffs == UNION { {FSub(chunk_end, chunk_start),
                          FFma(FNeg(local_chunk_index), chunk_size, chunk_end)} :
                         chunk_end \in ends }
    IN  UNION { {FAdd(chunk_start, FMul(random, d)),
                 FFma(random, d, chunk_start),
                 FFma(local_chunk_index, chunk_size, FMul(random, d))} :
                d \in diffs }

\* mutant: the next chunk taken for the ray's own
random_pixel_indexM(global_chunk_index, n_pixels_per_image, n_chunks_per_image, chunk_size, random) ==
    LET local_chunk_index == FAdd(fmodf(FromUInt(global_chunk_index), n_chunks_per_image), FOne)
        chunk_start == FMul(local_chunk_index, chunk_size)
    IN  { ToUInt(s) : s \in ChunkSums(local_chunk_index, chunk_size,
                                      chunk_start, random) }

\* random_pixel_index: the pixel indices the builds of the function return
random_pixel_index(global_chunk_index, n_pixels_per_image, n_chunks_per_image, chunk_size, random) ==
    LET local_chunk_index == fmodf(FromUInt(global_chunk_index), n_chunks_per_image)
        chunk_start == FMul(local_chunk_index, chunk_size)
    IN  { ToUInt(s) : s \in ChunkSums(local_chunk_index, chunk_size,
                                      chunk_start, random) }

\* image_idx of thread i
ImageIdx(i, n_rays_per_image) == ToUInt(FDiv(FromUInt(i), n_rays_per_image))

\* mutant: the comparison inverted
BeyondTMaxM(t, t_max) == FLess(t, t_max)

\* if (t_max < t): the ray starts beyond its extent
BeyondTMax(t, t_max) == FLess(t_max, t)

\* the pixels thread i of initialize_training_rays_and_pixels_kernel can
\* select, one per value of random_pixel_index, each with the address of its
\* RGBA fetch (in pixels: image_data + 4 * fetch)
SelectPixel(i, n_pixels_per_image, width, n_rays_per_image, chunk_size, random) ==
    LET image_idx == ImageIdx(i, n_rays_per_image)
    IN  { [image_idx |-> image_idx, pixel_idx |-> pixel_idx,
           x |-> pixel_idx % width, y |-> pixel_idx \div width,
           fetch |-> n_pixels_per_image * image_idx + pixel_idx] :
          pixel_idx \in random_pixel_index(i, n_pixels_per_image,
                                           n_rays_per_image, chunk_size,
                                           random) }

\* the pixels of thread i of the training batch, given random[i] = r / RandDen
BatchPixel(i, r) ==
    SelectPixel(i, NPixelsPerImage, Dataset.width, NRaysPerImage,
                RandomPixelChunkSize, RandomFloat(r))

\* what a thread of initialize_training_rays_and_pixels_kernel computes once
\* it has selected the pixel px
SampleRay(px) ==
    LET cam == cameras[px.image_idx]
        ray == global_ray_at_pixel_xy(cam, px.x, px.y)
        idir == FDiv(FOne, ray.d)
        hit == get_ray_t_intersection(ray.o, ray.d, idir)
        t_max == FSub(Ticks(cam.far), Ticks(cam.near))
        t == FMax(FZero, FAdd(hit[2], Eps))
    IN  [alive |-> hit[1] /\ ~BeyondTMax(t, t_max),
         o |-> ray.o, d |-> ray.d, idir |-> idir, t |-> t, t_max |-> t_max,
         rgba |-> image_data(px.fetch)]

PassDone(i) == done \cup {i} = Rays

initialize_training_rays_and_pixels_kernel(i) ==
    /\ pc = "sample"
    /\ i \in Rays \ done
    /\ \E r \in RandVals :
         \E px \in BatchPixel(i, r) : \E s \in {SampleRay(px)} :
             /\ ray_alive' = [ray_alive EXCEPT ![i] = s.alive]
             /\ sampler_alive' = [sampler_alive EXCEPT ![i] = s.alive]
             /\ IF s.alive
                THEN /\ pix_rgba' = [pix_rgba EXCEPT ![i] = s.rgba]
                     /\ ori_xyz' = [ori_xyz EXCEPT ![i] = s.o]
                     /\ dir_xyz' = [dir_xyz EXCEPT ![i] = s.d]
                     /\ idir_xyz' = [idir_xyz EXCEPT ![i] = s.idir]
                     /\ ray_t' = [ray_t EXCEPT ![i] = s.t]
                     /\ ray_t_max' = [ray_t_max EXCEPT ![i] = s.t_max]
                ELSE UNCHANGED <<pix_rgba, ori_xyz, dir_xyz, idir_xyz, ray_t,
                                 ray_t_max>>
    /\ done' = IF PassDone(i) THEN {} ELSE done \cup {i}
    /\ pc' = IF PassDone(i) THEN "count" ELSE pc
    /\ UNCHANGED <<grid, cameras, n_steps, ray_offset, cnt_info, gen_last,
                   rlog, wlog, out_count>>

\* ----------------------------------------------------------- step counter
\* mutant: the liveness check dropped
IsDeadM(i) == FALSE

\* if (!ray_alive[i]): the marching passes skip the rays that are dead
IsDead(i) == ~ray_alive[i]

\* while (t < t_max)
CountContinue(t, t_max) == FLess(t, t_max)

\* the loop of march_and_count_steps_per_ray_kernel from the state s =
\* [t, n, ori, rt, trace]: ori and rt are ori_xyz[i] and ray_t[i]
RECURSIVE CountLoop(_, _, _, _, _)
CountLoop(o, d, id, t_max, s) ==
    IF ~CountContinue(s.t, t_max) THEN [s EXCEPT !.stop = "t_max"]
    ELSE
      LET x == MulAdd(s.t, d, o)
          dt == get_dt(s.t, March.cone_angle, March.dt_min, March.dt_max)
          grid_level == get_grid_level_at(x, dt)
      IN  IF ~contains(x) THEN [s EXCEPT !.stop = "bbox"]
          ELSE IF is_occupied_at(grid_level, x)
          THEN CountLoop(o, d, id, t_max,
                   [s EXCEPT !.t = FAdd(@, dt),
                             !.rt = IF s.n = 0 THEN FZero ELSE @,
                             !.ori = IF s.n = 0 THEN x ELSE @,
                             !.n = @ + 1,
                             !.trace = Append(@, "occupied")])
          ELSE CountLoop(o, d, id, t_max,
                   [s EXCEPT !.t = FAdd(@, get_dt_to_next_voxel(
                                               x, d, id, March.dt_min,
                                               grid_level)),
                             !.trace = Append(@, "skipped")])

CountRay(i) ==
    CountLoop(ori_xyz[i], dir_xyz[i], idir_xyz[i], ray_t_max[i],
              [t |-> ray_t[i], n |-> 0, ori |-> ori_xyz[i], rt |-> ray_t[i],
               trace |-> <<>>, stop |-> "none"])

CountReads(i) ==
    { <<"count", i, b, i>> : b \in {"ori_xyz", "dir_xyz", "idir_xyz",
                                     "ray_t", "ray_t_max"} }

march_and_count_steps_per_ray_kernel(i) ==
    /\ pc = "count"
    /\ i \in Rays \ done
    /\ IF IsDead(i)
       THEN /\ n_steps' = [n_steps EXCEPT ![i] = 0]
            /\ rlog' = rlog \cup {<<"count", i, "ray_alive", i>>}
            /\ wlog' = wlog \cup {<<"count", i, "n_steps", i>>}
            /\ UNCHANGED <<ray_alive, ori_xyz, ray_t, cnt_info>>
       ELSE \E s \in {CountRay(i)} :
                /\ n_steps' = [n_steps EXCEPT ![i] = s.n]
                /\ ray_alive' = [ray_alive EXCEPT ![i] = (s.n # 0)]
                /\ ori_xyz' = [ori_xyz EXCEPT ![i] = s.ori]
                /\ ray_t' = [ray_t EXCEPT ![i] = s.rt]
                /\ cnt_info' = [cnt_info EXCEPT ![i] =
                       [ran |-> TRUE, t0 |-> ray_t[i], trace |-> s.trace,
                        stop |-> s.stop]]
                /\ rlog' = rlog \cup {<<"count", i, "ray_alive", i>>}
                                \cup CountReads(i)
                /\ wlog' = wlog \cup {<<"count", i, "n_steps", i>>}
                      \cup (IF s.n = 0
                            THEN {<<"count", i, "ray_alive", i>>}
                            ELSE {<<"count", i, "ray_t", i>>,
                                  <<"count", i, "ori_xyz", i>>})
    /\ done' = IF PassDone(i) THEN {} ELSE done \cup {i}
    /\ pc' = IF PassDone(i) THEN "scan" ELSE pc
    /\ UNCHANGED <<grid, cameras, pix_rgba, dir_xyz, idir_xyz, ray_t_max,
                   ray_offset, sampler_alive, gen_last, out_count>>

\* ------------------------------------------------------------- prefix sum
RECURSIVE SumBelow(_, _)
SumBelow(f, i) == IF i = 0 THEN 0 ELSE f[i - 1] + SumBelow(f, i - 1)

\* the trainer's exclusive scan of n_steps, between the two marching passes
PrefixSum ==
    /\ pc = "scan"
    /\ ray_offset' = [i \in Rays |-> SumBelow(n_steps, i)]
    /\ pc' = "generate"
    /\ UNCHANGED <<done, grid, cameras, pix_rgba, ori_xyz, dir_xyz, idir_xyz,
                   ray_t, ray_t_max, ray_alive, n_steps, sampler_alive,
                   cnt_info, gen_last, rlog, wlog, out_count>>

\* -------------------------------------------------------- sample generator
\* mutant: the step offset off by one
assign_normalized_ray_sampleM(batch_size, sample_offset, n_steps_taken, x, dir_x, dt) ==
    [idx |-> sample_offset + n_steps_taken + 1,
     dt |-> FMul(inv_aabb_size, dt),
     pos |-> FClamp(MulAdd(x, inv_aabb_size, FHalf), FZero, FOne),
     dir |-> MulAdd(FHalf, dir_x, FHalf)]

\* the values assign_normalized_ray_sample stores at step_offset_0
assign_normalized_ray_sample(batch_size, sample_offset, n_steps_taken, x, dir_x, dt) ==
    [idx |-> sample_offset + n_steps_taken,
     dt |-> FMul(inv_aabb_size, dt),
     pos |-> FClamp(MulAdd(x, inv_aabb_size, FHalf), FZero, FOne),
     dir |-> MulAdd(FHalf, dir_x, FHalf)]

\* while (n_steps_taken < n_steps)
GenContinue(n_steps_taken, n) == n_steps_taken < n

\* mutant: the jitter subtracted
JitteredTM(t0, t1, r) == FSub(t0, FMul(FSub(t1, t0), r))

\* tr = t0 + (t1 - t0) * s_rand[n_steps_taken]
JitteredT(t0, t1, r) == MulAdd(FSub(t1, t0), r, t0)

\* the loop of march_and_generate_network_positions_kernel from the state
\* s = [t0, t1, k, s_rand, samples, trs, trace, rand, stop]; k is
\* n_steps_taken.  s_rand holds the values of random_float the loop has read:
\* s_rand[n_steps_taken] is drawn when the loop first reads it, so the result
\* is the set of the loop's outcomes over every content of random_float.
GenStep(o, d, id, n, sample_offset, s) ==
    IF ~GenContinue(s.k, n) THEN {[s EXCEPT !.stop = "n_steps"]}
    ELSE IF Len(s.s_rand) = s.k
    THEN { [s EXCEPT !.s_rand = Append(@, r)] : r \in RandVals }
    ELSE
      LET tr == JitteredT(s.t0, s.t1, RandomFloat(s.s_rand[s.k + 1]))
          x == MulAdd(tr, d, o)
          dt == get_dt(tr, March.cone_angle, March.dt_min, March.dt_max)
          grid_level == get_grid_level_at(x, dt)
          sample == assign_normalized_ray_sample(BatchSize, sample_offset,
                                                 s.k, x, d, dt)
          r == [s EXCEPT !.rand = @ \cup {sample_offset + s.k}]
      IN  IF ~contains(x)
          THEN {[r EXCEPT !.samples = Append(@, sample), !.stop = "bbox"]}
          ELSE IF is_occupied_at(grid_level, x)
          THEN {[r EXCEPT !.t0 = s.t1,
                          !.t1 = FAdd(s.t1, dt),
                          !.samples = Append(@, sample),
                          !.trs = Append(@, tr),
                          !.k = @ + 1,
                          !.trace = Append(@, "occupied")]}
          ELSE {[r EXCEPT !.t0 = s.t1,
                          !.t1 = FAdd(s.t1, get_dt_to_next_voxel(
                                     x, d, id, March.dt_min, grid_level)),
                          !.trace = Append(@, "skipped")]}

RECURSIVE GenMarch(_, _)
GenMarch(ray, s) ==
    IF s.stop # "none" THEN {s}
    ELSE UNION { GenMarch(ray, q) :
                   q \in GenStep(ray.o, ray.d, ray.id, ray.n,
                                 ray.sample_offset, s) }

GenLoop(o, d, id, n, sample_offset, s) ==
    GenMarch([o |-> o, d |-> d, id |-> id, n |-> n,
              sample_offset |-> sample_offset], s)

\* the outcomes of thread i of the generating pass: what it took, wrote
\* and read
GenRay(i) ==
    { [k |-> e.k, samples |-> e.samples, trs |-> e.trs, trace |-> e.trace,
       rand |-> e.rand, stop |-> e.stop] :
        e \in GenLoop(ori_xyz[i], dir_xyz[i], idir_xyz[i], n_steps[i],
                      ray_offset[i],
                      [t0 |-> ray_t[i], t1 |-> ray_t[i], k |-> 0,
                       s_rand |-> <<>>, samples |-> <<>>, trs |-> <<>>,
                       trace |-> <<>>, rand |-> {}, stop |-> "none"]) }

GenReads(i) ==
    { <<"generate", i, b, i>> : b \in {"n_ray_steps", "ray_offset",
                                        "in_ori_xyz", "in_dir_xyz",
                                        "in_idir_xyz", "in_ray_t"} }

SampleIdx(samples) == { samples[j].idx : j \in 1 .. Len(samples) }
\* the write counts after the writes of samples
RECURSIVE CountWrites(_, _)
CountWrites(count, samples) ==
    IF samples = <<>> THEN count
    ELSE LET q == Head(samples).idx
         IN  CountWrites(IF q \in DOMAIN count
                     THEN [count EXCEPT ![q] = @ + 1] ELSE count,
                     Tail(samples))

NoThread == [ran |-> FALSE, ray |-> 0, k |-> 0, samples |-> <<>>,
             trs |-> <<>>, trace |-> <<>>, stop |-> "none"]

\* The threads of a pass share no state.  Those of the sampler and of the
\* counting pass run in every order; those of the generating pass, whose
\* outcomes are many, run in index order.
march_and_generate_network_positions_kernel(i) ==
    /\ pc = "generate"
    /\ i \in Rays \ done
    /\ \A j \in Rays \ done : i <= j
    /\ IF IsDead(i)
       THEN /\ gen_last' = [NoThread EXCEPT !.ran = TRUE, !.ray = i,
                                            !.stop = "dead"]
            /\ rlog' = rlog \cup {<<"generate", i, "ray_alive", i>>}
            /\ UNCHANGED <<wlog, out_count>>
       ELSE \E s \in GenRay(i) :
                  /\ gen_last' = [ran |-> TRUE, ray |-> i, k |-> s.k,
                                  samples |-> s.samples, trs |-> s.trs,
                                  trace |-> s.trace, stop |-> s.stop]
                  /\ rlog' = rlog \cup {<<"generate", i, "ray_alive", i>>}
                                  \cup GenReads(i)
                                  \cup { <<"generate", i, "random_float", q>> :
                                           q \in s.rand }
                  /\ wlog' = wlog \cup { <<"generate", i, "out", q>> :
                                           q \in SampleIdx(s.samples) }
                  /\ out_count' = CountWrites(out_count, s.samples)
    /\ done' = IF PassDone(i) THEN {} ELSE done \cup {i}
    /\ pc' = IF PassDone(i) THEN "done" ELSE pc
    /\ UNCHANGED <<grid, cameras, pix_rgba, ori_xyz, dir_xyz, idir_xyz, ray_t,
                   ray_t_max, ray_alive, n_steps, ray_offset, sampler_alive,
                   cnt_info>>

\* ------------------------------------------------------------ the pipeline
NoMarch == [ran |-> FALSE, t0 |-> FZero, trace |-> <<>>, stop |-> "none"]

TrainBuffers ==
    /\ done = {}
    /\ pix_rgba = [i \in Rays |-> Unwritten]
    /\ ori_xyz = [i \in Rays |-> FZero]
    /\ dir_xyz = [i \in Rays |-> FZero]
    /\ idir_xyz = [i \in Rays |-> FZero]
    /\ ray_t = [i \in Rays |-> FZero]
    /\ ray_t_max = [i \in Rays |-> FZero]
    /\ ray_alive = [i \in Rays |-> FALSE]
    /\ n_steps = [i \in Rays |-> 0]
    /\ ray_offset = [i \in Rays |-> 0]
    /\ sampler_alive = [i \in Rays |-> FALSE]
    /\ cnt_info = [i \in Rays |-> NoMarch]
    /\ gen_last = NoThread
    /\ rlog = {}
    /\ wlog = {}
    /\ out_count = [q \in 0 .. (BatchSize - 1) |-> 0]

TrainInit ==
    /\ pc = "sample"
    /\ grid \in Grids
    /\ cameras \in CameraSets
    /\ TrainBuffers

\* no batch is being generated
TrainOff ==
    /\ pc = "off"
    /\ grid = [l \in Levels |-> {}]
    /\ cameras = [m \in Images |-> CameraList[1]]
    /\ TrainBuffers

\* ---------------------------------------------------- pixel selection alone
\* bounds of the inputs drawn for the sampler's pixel selection
PxMaxRays == 5
PxMaxImages == 3
PxRandDen == 4

VARIABLES
    px_in,          \* the inputs: thread, n_rays, n_images, image, random
    px_out,         \* what the thread selected
    px_done         \* whether it has run

pixVars == <<px_in, px_out, px_done>>

NoPixel == [image_idx |-> 0, pixel_idx |-> 0, x |-> 0, y |-> 0, fetch |-> 0]

\* the largest float below 1
FOneBelow == <<2 ^ SigBits - 1, -SigBits>>

\* the random floats drawn: the multiples of 1 / PxRandDen and the largest
\* float of [0, 1)
PixRandoms ==
    { FDiv(FromUInt(r), FromUInt(PxRandDen)) : r \in 0 .. (PxRandDen - 1) }
        \cup {FOneBelow}

PixInputs ==
    { [i |-> i, n_rays |-> n, n_images |-> m,
       width |-> dim[1], height |-> dim[2], random |-> r] :
        n \in 1 .. PxMaxRays, m \in 1 .. PxMaxImages, i \in 0 .. (PxMaxRays - 1),
        dim \in {<<3, 2>>, <<2, 2>>}, r \in PixRandoms }

\* what the host passes for the inputs inp: n_rays_per_image and
\* random_pixel_chunk_size = n_pixels_per_image / n_rays_per_image
PxNRaysPerImage(inp) == FDiv(FromUInt(inp.n_rays), FromUInt(inp.n_images))
PxChunkSize(inp) ==
    FDiv(FromUInt(inp.width * inp.height), PxNRaysPerImage(inp))

\* at least one ray per image, and i < n_rays
PixInit ==
    /\ px_in \in { inp \in PixInputs :
                     inp.n_rays >= inp.n_images /\ inp.i < inp.n_rays }
    /\ px_out = NoPixel
    /\ px_done = FALSE

PixOff ==
    /\ px_in = [i |-> 0, n_rays |-> 1, n_images |-> 1,
                width |-> 2, height |-> 2, random |-> FZero]
    /\ px_out = NoPixel
    /\ px_done = TRUE

\* lines 107-111 and 157-158 of the sampler, on the inputs drawn
select_pixel ==
    /\ ~px_done
    /\ px_done' = TRUE
    /\ px_out' \in SelectPixel(px_in.i, px_in.width * px_in.height, px_in.width,
                             PxNRaysPerImage(px_in), PxChunkSize(px_in),
                             px_in.random)
    /\ UNCHANGED px_in

\* ---------------------------------------------------- rendering controller
NContexts == 2
MaxRequests == 2
UnitsPerTask == 2
MaxOps == 2

Contexts == 0 .. (NContexts - 1)
NoRequest == 0

VARIABLES
    ctl_state,      \* "Idle" or "Rendering"
    request,        \* the active request, NoRequest for nullptr
    tasks,          \* the outstanding render tasks
    ctx,            \* per context: the task it works on and where it is
    last_write,     \* the last result written: request, context, unit
    mem,            \* device memory of each context
    ops,            \* history: the submit and cancel calls
    completed,      \* history: some task ran to completion
    cancel_clean,   \* history: no task had completed at the last cancel
    mem_seen,       \* history: <<phase, get_cuda_memory_allocated()>>
    late            \* history, per context: the results its task has
                    \* written while its request was not the active one

ctlVars == <<ctl_state, request, tasks, ctx, last_write, mem, ops,
             completed, cancel_clean, mem_seen, late>>

\* a context is at a checkpoint or inside a work unit
IdleContext == [busy |-> FALSE, req |-> NoRequest, unit |-> 0,
                at |-> "checkpoint"]

NoWrite == [req |-> NoRequest, ctx |-> 0, unit |-> 0]

\* NeRFRenderingController(pattern, batch_size): the contexts' memory is
\* allocated here, sized by batch_size
CtlInit ==
    /\ ctl_state = "Idle"
    /\ request = NoRequest
    /\ tasks = {}
    /\ ctx = [c \in Contexts |-> IdleContext]
    /\ last_write = NoWrite
    /\ mem = [c \in Contexts |-> BatchSize]
    /\ ops = <<>>
    /\ completed = FALSE
    /\ cancel_clean = FALSE
    /\ mem_seen = {}
    /\ late = [c \in Contexts |-> 0]

\* the tasks submit leaves outstanding: one task of r per context
SubmittedTasks(r) ==
    { [req |-> r, ctx |-> c, st |-> "pending"] : c \in Contexts }

\* submit(request): the tasks of the request before it are discarded
submit(r) ==
    /\ Len(ops) < MaxOps
    /\ r = Cardinality({ j \in 1 .. Len(ops) : ops[j][1] = "submit" }) + 1
    /\ r <= MaxRequests
    /\ request' = r
    /\ tasks' = SubmittedTasks(r)
    /\ ctl_state' = "Rendering"
    /\ ops' = Append(ops, <<"submit", r>>)
    /\ UNCHANGED <<ctx, last_write, mem, completed, cancel_clean, mem_seen,
                   late>>

\* mutant: the tasks of the cancelled request stay outstanding
CancelledTasksM(ts) == ts

\* the tasks cancel leaves outstanding
CancelledTasks(ts) == {}

cancel ==
    /\ Len(ops) < MaxOps
    /\ request' = NoRequest
    /\ tasks' = CancelledTasks(tasks)
    /\ ctl_state' = "Idle"
    /\ ops' = Append(ops, <<"cancel", NoRequest>>)
    /\ cancel_clean' = ~completed
    /\ UNCHANGED <<ctx, last_write, mem, completed, mem_seen, late>>

\* when a call of get_cuda_memory_allocated() is made
Phase ==
    IF ops = <<>> THEN "before"
    ELSE IF ctl_state = "Rendering" THEN "rendering" ELSE "after"

get_cuda_memory_allocated ==
    /\ <<Phase, mem>> \notin mem_seen
    /\ mem_seen' = mem_seen \cup {<<Phase, mem>>}
    /\ UNCHANGED <<ctl_state, request, tasks, ctx, last_write, mem, ops,
                   completed, cancel_clean, late>>

\* a free context takes up its pending task
context_begin(c) ==
    /\ ~ctx[c].busy
    /\ \E t \in tasks :
         /\ t.ctx = c
         /\ t.st = "pending"
         /\ tasks' = (tasks \ {t}) \cup {[t EXCEPT !.st = "running"]}
         /\ ctx' = [ctx EXCEPT ![c] = [busy |-> TRUE, req |-> t.req,
                                       unit |-> 0, at |-> "checkpoint"]]
    /\ late' = [late EXCEPT ![c] = 0]
    /\ UNCHANGED <<ctl_state, request, last_write, mem, ops, completed,
                   cancel_clean, mem_seen>>

\* mutant: the task is not checked
IsCurrentM(c) == TRUE

\* is the context's task still one of the controller's tasks
IsCurrent(c) == \E t \in tasks : t.ctx = c /\ t.req = ctx[c].req

\* a context at the checkpoint between two work units: it stops if its task
\* is no longer current, and otherwise goes on to the next unit
context_checkpoint(c) ==
    /\ ctx[c].busy
    /\ ctx[c].at = "checkpoint"
    /\ ctx' = [ctx EXCEPT ![c] = IF IsCurrent(c) THEN [@ EXCEPT !.at = "unit"]
                                 ELSE IdleContext]
    /\ UNCHANGED <<ctl_state, request, tasks, last_write, mem, ops, completed,
                   cancel_clean, mem_seen, late>>

\* a context inside a work unit, past its checkpoint: it writes the unit's
\* result, whatever submit and cancel have done since, and completes its
\* task with the last unit
context_unit(c) ==
    /\ ctx[c].busy
    /\ ctx[c].at = "unit"
    /\ last_write' = [req |-> ctx[c].req, ctx |-> c, unit |-> ctx[c].unit]
    /\ late' = [late EXCEPT ![c] = IF ctx[c].req = request THEN @ ELSE @ + 1]
    /\ IF ctx[c].unit + 1 < UnitsPerTask
       THEN /\ ctx' = [ctx EXCEPT ![c].unit = @ + 1, ![c].at = "checkpoint"]
            /\ UNCHANGED <<ctl_state, request, tasks, completed>>
       ELSE \E own \in {{ t \in tasks : t.ctx = c /\ t.req = ctx[c].req }} :
            /\ ctx' = [ctx EXCEPT ![c] = IdleContext]
            /\ tasks' = tasks \ own
            /\ completed' = TRUE
            /\ ctl_state' = IF own # {} /\ tasks \ own = {} THEN "Idle"
                            ELSE ctl_state
            /\ request' = IF own # {} /\ tasks \ own = {} THEN NoRequest
                          ELSE request
    /\ UNCHANGED <<mem, ops, cancel_clean, mem_seen>>

CtlOff == CtlInit

\* --------------------------------------------------------- specifications
vars == <<trainVars, pixVars, ctlVars>>

\* the training batch: sampler, counting pass, prefix sum, generating pass
Init == TrainInit /\ PixOff /\ CtlOff

Next ==
    \/ \E i \in Rays :
         /\ initialize_training_rays_and_pixels_kernel(i)
         /\ UNCHANGED <<pixVars, ctlVars>>
    \/ \E i \in Rays :
         /\ march_and_count_steps_per_ray_kernel(i)
         /\ UNCHANGED <<pixVars, ctlVars>>
    \/ PrefixSum /\ UNCHANGED <<pixVars, ctlVars>>
    \/ \E i \in Rays :
         /\ march_and_generate_network_positions_kernel(i)
         /\ UNCHANGED <<pixVars, ctlVars>>

Spec == Init /\ [][Next]_vars

\* the sampler's pixel selection on drawn inputs
PixSpecInit == TrainOff /\ PixInit /\ CtlOff

PixNext == select_pixel /\ UNCHANGED <<trainVars, ctlVars>>

PixSpec == PixSpecInit /\ [][PixNext]_vars

\* the rendering controller
CtlSpecInit == TrainOff /\ PixOff /\ CtlInit

CtlSpecNext ==
    \/ \E r \in 1 .. MaxRequests : submit(r) /\ UNCHANGED <<trainVars, pixVars>>
    \/ cancel /\ UNCHANGED <<trainVars, pixVars>>
    \/ get_cuda_memory_allocated /\ UNCHANGED <<trainVars, pixVars>>
    \/ \E c \in Contexts : context_begin(c) /\ UNCHANGED <<trainVars, pixVars>>
    \/ \E c \in Contexts :
         context_checkpoint(c) /\ UNCHANGED <<trainVars, pixVars>>
    \/ \E c \in Contexts :
         context_unit(c) /\ UNCHANGED <<trainVars, pixVars>>

CtlSpec == CtlSpecInit /\ [][CtlSpecNext]_vars

\* ------------------------------------------------------------------ claims
Sampled(i) == (pc # "sample") \/ (i \in done)
Counted(i) == (pc \in {"scan", "generate", "done"}) \/ (pc = "count" /\ i \in done)
\* thread i of the generating pass has marched (it was the last to finish)
GenFinished(i) == gen_last.ran /\ gen_last.ray = i /\ gen_last.stop # "dead"

\* the counting pass's march up to its last occupied step
RECURSIVE UpToLastOccupied(_)
UpToLastOccupied(trace) ==
    IF trace = <<>> \/ trace[Len(trace)] = "occupied" THEN trace
    ELSE UpToLastOccupied(SubSeq(trace, 1, Len(trace) - 1))

\* the counting pass's march from its first occupied step, where it moved
\* the ray's origin
RECURSIVE FromFirstOccupied(_)
FromFirstOccupied(trace) ==
    IF trace = <<>> \/ trace[1] = "occupied" THEN trace
    ELSE FromFirstOccupied(Tail(trace))

NoSkip(trace) == \A j \in 1 .. Len(trace) : trace[j] = "occupied"
NonDecreasing(ts) == \A j \in 1 .. (Len(ts) - 1) : FLeq(ts[j], ts[j + 1])
TotalSteps == SumBelow(n_steps, NRays)

\* C1: for every ray the counting pass leaves alive, the generating pass emits
\* exactly n_steps[i] samples, taking the same sequence of occupied and
\* skipped steps as the counting pass took from the origin it left behind
\* (its first occupied step) and stopping where it stopped.
C1_PassesAgree ==
    \A i \in Rays :
        GenFinished(i) =>
            /\ Len(gen_last.samples) = n_steps[i]
            /\ gen_last.stop = "n_steps"
            /\ gen_last.trace =
                 FromFirstOccupied(UpToLastOccupied(cnt_info[i].trace))

\* C2: after the four stages the channel-0 sample indices written are exactly
\* 0 .. sum(n_steps) - 1, each written exactly once.
C2_Compacted ==
    pc = "done" =>
        \A q \in DOMAIN out_count :
            out_count[q] = IF q < TotalSteps THEN 1 ELSE 0

\* C3: a ray all of whose queried cells are occupied, in both passes, and
\* whose counting march ends at t_max inside the box, is counted
\* N = (number of cells crossed) steps, and the generating pass emits exactly
\* N samples, none on leaving the box, with non-decreasing t.
C3_FullyOccupied ==
    \A i \in Rays :
        (/\ GenFinished(i)
         /\ NoSkip(cnt_info[i].trace)
         /\ cnt_info[i].stop = "t_max"
         /\ NoSkip(gen_last.trace))
        => /\ n_steps[i] = Len(cnt_info[i].trace)
           /\ gen_last.stop = "n_steps"
           /\ gen_last.k = n_steps[i]
           /\ Len(gen_last.samples) = n_steps[i]
           /\ Len(gen_last.trs) = n_steps[i]
           /\ NonDecreasing(gen_last.trs)

C3_Witness ==
    \E i \in Rays :
        /\ GenFinished(i)
        /\ NoSkip(cnt_info[i].trace)
        /\ cnt_info[i].stop = "t_max"
        /\ NoSkip(gen_last.trace)
        /\ n_steps[i] >= 3
        /\ FLess(gen_last.trs[2], gen_last.trs[3])

\* buffers indexed by ray
PerRayBuffers == {"ori_xyz", "dir_xyz", "idir_xyz", "ray_t", "ray_t_max",
                  "in_ori_xyz", "in_dir_xyz", "in_idir_xyz", "in_ray_t",
                  "in_ray_t_max", "ray_offset", "n_ray_steps"}

\* C4: for a ray the sampler marks dead, the marching passes read nothing
\* but ray_alive[i]: thread i reads no other buffer, no thread reads a
\* per-ray buffer at index i; the counting pass writes only n_steps[i] = 0,
\* the generating pass writes nothing, and ray_alive[i] stays false.
C4_DeadRaysUntouched ==
    \A i \in Rays :
        (Sampled(i) /\ ~sampler_alive[i]) =>
            /\ ~ray_alive[i]
            /\ \A e \in rlog :
                 /\ e[2] = i => e[3] = "ray_alive"
                 /\ (e[3] \in PerRayBuffers) => e[4] # i
            /\ \A e \in wlog : e[2] = i => e = <<"count", i, "n_steps", i>>
            /\ Counted(i) => (n_steps[i] = 0 /\ <<"count", i, "n_steps", i>> \in wlog)
            /\ (gen_last.ran /\ gen_last.ray = i) =>
                   (gen_last.stop = "dead" /\ gen_last.samples = <<>>)

C4_Witness ==
    /\ pc = "done"
    /\ \E i, j \in Rays :
         /\ ~sampler_alive[i]
         /\ i < j
         /\ n_steps[j] > 0
         /\ <<"generate", i, "ray_alive", i>> \in rlog
         /\ <<"generate", j, "out", ray_offset[j]>> \in wlog

\* the sampler's inputs for ray i, from its camera
RayCam(i) == cameras[ImageIdx(i, NRaysPerImage)]
RayHit(i) ==
    get_ray_t_intersection(Ticks(RayCam(i).o), FromInt(RayCam(i).d),
                           FDiv(FOne, FromInt(RayCam(i).d)))
RayTMax(i) == FSub(Ticks(RayCam(i).far), Ticks(RayCam(i).near))

\* C5: a ray whose bounding-box intersection t exceeds t_max is marked dead
\* by the sampler, is counted 0 steps and is written no sample; a ray that
\* reaches the counting pass alive with t >= t_max ends with 0 steps, dead.
C5_BeyondTMax ==
    \A i \in Rays :
        /\ (Sampled(i) /\ RayHit(i)[1] /\ FLess(RayTMax(i), RayHit(i)[2])) =>
              /\ ~sampler_alive[i]
              /\ ~ray_alive[i]
              /\ Counted(i) => n_steps[i] = 0
              /\ \A e \in wlog : ~(e[1] = "generate" /\ e[2] = i)
        /\ (Counted(i) /\ cnt_info[i].ran
                       /\ FLeq(ray_t_max[i], cnt_info[i].t0)) =>
              /\ n_steps[i] = 0
              /\ ~ray_alive[i]

C5_Witness ==
    /\ pc = "done"
    /\ \E i, j \in Rays :
         /\ RayHit(i)[1] /\ FLess(RayTMax(i), RayHit(i)[2])
         /\ sampler_alive[j] /\ cnt_info[j].ran
         /\ cnt_info[j].t0 = ray_t_max[j]

\* C9: every write of the generating pass for ray i lands at a channel-0
\* index inside [ray_offset[i], ray_offset[i] + n_steps[i]), the write on
\* leaving the box included, whether or not the passes agree; the generator
\* never writes more samples than were counted.
C9_WritesInSlice ==
    /\ \A e \in wlog :
         e[1] = "generate" =>
             /\ ray_offset[e[2]] <= e[4]
             /\ e[4] < ray_offset[e[2]] + n_steps[e[2]]
             /\ \A j \in Rays \ {e[2]} :
                  ~(ray_offset[j] <= e[4] /\ e[4] < ray_offset[j] + n_steps[j])
    /\ \A i \in Rays : GenFinished(i) => Len(gen_last.samples) <= n_steps[i]
    /\ \A q \in DOMAIN out_count : out_count[q] <= 1

C9_Witness ==
    /\ gen_last.stop = "bbox"
    /\ gen_last.trace # UpToLastOccupied(cnt_info[gen_last.ray].trace)
    /\ ray_offset[gen_last.ray] > 0
    /\ gen_last.samples[Len(gen_last.samples)].idx
         = ray_offset[gen_last.ray] + gen_last.k

\* floor(a * b) of two floats, from the exact 48-bit product
FloorMul(a, b) ==
    IF a[1] = 0 \/ b[1] = 0 THEN 0
    ELSE LET ah == a[1] \div 4096
             al == a[1] % 4096
             bh == b[1] \div 4096
             bl == b[1] % 4096
             mid == ah * bl + al * bh + ((al * bl) \div 4096)
             top == ah * bh + (mid \div 4096)
             sh == -(a[2] + b[2] + SigBits)
         IN  IF sh > 30 THEN 0 ELSE top \div (2 ^ sh)

\* C8: with n_chunks_per_image = n_rays_per_image and random = 0 the sampler
\* selects floor(chunk_start), chunk_start = (i mod n_chunks_per_image) *
\* chunk_size: the truncated float product, which is the floor of the exact
\* product of the two floats; where n_rays_per_image and chunk_size are exact
\* (n_images a power of two, n_rays dividing n_pixels * n_images) this is
\* ((i * n_images) mod n_rays) * n_pixels_per_image / n_rays.
C8_FirstPixelOfChunk ==
    (px_done /\ px_in.random = FZero) =>
        /\ px_out.pixel_idx =
               ToUInt(FMul(fmodf(FromUInt(px_in.i), PxNRaysPerImage(px_in)),
                           PxChunkSize(px_in)))
        /\ px_out.pixel_idx =
               FloorMul(fmodf(FromUInt(px_in.i), PxNRaysPerImage(px_in)),
                        PxChunkSize(px_in))
        /\ (/\ px_in.n_images \in {1, 2, 4}
            /\ (px_in.width * px_in.height * px_in.n_images) % px_in.n_rays = 0)
           => px_out.pixel_idx =
                 (((px_in.i * px_in.n_images) % px_in.n_rays)
                    * (px_in.width * px_in.height)) \div px_in.n_rays

C8_Witness ==
    /\ px_done
    /\ px_in.random = FZero
    /\ px_in.n_rays = 3
    /\ px_in.n_images = 2
    /\ px_in.i = 2
    /\ px_in.width * px_in.height = 6
    /\ px_out.pixel_idx = 2

\* C10: for every ray, random value and n_rays_per_image, integer or not,
\* the pixel selected is smaller than n_pixels_per_image, its coordinates lie
\* inside the image and its RGBA is fetched from image image_idx.
C10_PixelInsideImage ==
    px_done =>
        /\ px_out.pixel_idx < px_in.width * px_in.height
        /\ px_out.x < px_in.width
        /\ px_out.y < px_in.height
        /\ px_out.fetch \div (px_in.width * px_in.height) = px_out.image_idx

\* C6: after submit(A) and then cancel(), no task having completed, the
\* controller is Idle with no task outstanding and no active request, every
\* context still at work holds a task that is no longer current, and
\* get_cuda_memory_allocated() has returned one value throughout.
C6_SubmitThenCancel ==
    (ops = <<<<"submit", 1>>, <<"cancel", NoRequest>>>> /\ cancel_clean) =>
        /\ ctl_state = "Idle"
        /\ tasks = {}
        /\ request = NoRequest
        /\ \A c \in Contexts : ctx[c].busy => ~IsCurrent(c)
        /\ \A m1, m2 \in mem_seen : m1[2] = m2[2]

C6_Witness ==
    /\ ops = <<<<"submit", 1>>, <<"cancel", NoRequest>>>>
    /\ cancel_clean
    /\ \E c \in Contexts : ctx[c].busy /\ ctx[c].req = 1
    /\ last_write.req = 1
    /\ {m[1] : m \in mem_seen} = {"before", "rendering", "after"}

\* C7 as claimed: every outstanding task belongs to the one active request,
\* and once submit(B) has superseded A no task of A writes a result: while a
\* request is active, every result written is one of that request.
C7_OneActiveRequest ==
    /\ [](\A t \in tasks : request # NoRequest /\ t.req = request)
    /\ [](ctl_state = "Rendering" <=> request # NoRequest)
    /\ [][(last_write' # last_write /\ request # NoRequest) =>
             last_write'.req = request]_vars

\* C7 amended: every outstanding task belongs to the one active request, and
\* a task that has been superseded or cancelled writes at most one more
\* result, that of the work unit whose checkpoint it had passed.
C7_SupersededWritesOnce ==
    /\ \A t \in tasks : request # NoRequest /\ t.req = request
    /\ ctl_state = "Rendering" <=> request # NoRequest
    /\ \A c \in Contexts : late[c] <= 1

C7_Witness ==
    /\ request = 2
    /\ \A t \in tasks : t.req = 2
    /\ \E c \in Contexts :
         /\ late[c] = 1
         /\ last_write.req = 1
         /\ last_write.ctx = c
         /\ ~ctx[c].busy

====
